---- MODULE Spec2Model ----
(***************************************************************************)
(* Model of the JobManager of fish-finder (src/src/types.ts, lines 305 to  *)
(* 644): the registry of jobs, the per-batch dynamic FIFO queue, the       *)
(* batch status machine, the published events and the cleanup sweep.       *)
(* Every public method of the class is one action; the arguments of a call *)
(* are drawn from small sets.  A call on an id that is not in the map      *)
(* takes the method's "not found" branch, as in the code.                  *)
(***************************************************************************)
EXTENDS Integers, Sequences, FiniteSets, TLC

\* ------------------------------------------------------------------ bounds

\* Longest history list (batch.videos) the model lets a batch reach.
MaxVideos == 2

\* Most outcomes (completed plus failed entries) recorded for one batch.
MaxOutcomes == 2

\* Number of clock steps the model's clock may advance.
MaxTicks == 3

\* ------------------------------------------------------ values of arguments

BatchIds == {"b1"}
JobIds == {"j1", "j2"}
Paths == {"/a", "/b"}
Names == {"a.mp4"}
Results == {"r1"}
Errors == {"e1"}
Reasons == {"cached"}
Models == {"m"}
Fpss == {1}
Progresses == {[stage |-> "analyzing", percent |-> 50, message |-> "msg"]}

\* null of a string-valued field, and of a field holding a Date or an object
Null == "null"
Nothing == << >>
Some(v) == << v >>

\* ------------------------------------------------------------------ helpers

SeqsUpTo(S, n) == UNION {[1..k -> S] : k \in 0..n}

\* Map.set(k, v) and Map.delete for every key of S
Put(map, k, v) == [x \in (DOMAIN map) \cup {k} |-> IF x = k THEN v ELSE map[x]]
Remove(map, S) == [x \in (DOMAIN map) \ S |-> map[x]]

\* Mutant of IndexOf: positions counted from 1.
IndexOfFromOne(seq, x) ==
  IF \E i \in 1..Len(seq) : seq[i] = x
    THEN CHOOSE i \in 1..Len(seq) : seq[i] = x /\ \A j \in 1..(i - 1) : seq[j] # x
    ELSE -1

\* Array.prototype.indexOf: the first index (from 0) holding x, or -1
IndexOf(seq, x) ==
  IF \E i \in 1..Len(seq) : seq[i] = x
    THEN (CHOOSE i \in 1..Len(seq) : seq[i] = x /\ \A j \in 1..(i - 1) : seq[j] # x) - 1
    ELSE -1

\* videos.map(v => ({ path: v, originalName: v }))
MapToItems(videos) == [i \in 1..Len(videos) |-> [path |-> videos[i], originalName |-> videos[i]]]

\* ---------------------------------------------------------------- constants

\* 60 * 60 * 1000 ms, the age beyond which cleanup() purges a record
RetentionMs == 60 * 60 * 1000

\* The granularity of the model's clock: Date.now() advances in steps of 30 minutes.
ClockStepMs == 30 * 60 * 1000

\* -------------------------------------------------------------------- state

VARIABLES
  jobs,      \* JobManager.jobs: Map<string, Job>
  batches,   \* JobManager.batches: Map<string, BatchJob>
  now,       \* Date.now()
  events,    \* the events the last call published with emit(), in order
  ret,       \* the last call: its name, the id it was given, what it returned
  born,      \* history: id -> startedAt of the latest record created under it
  accepted,  \* history: per batch, the items accepted (createBatch, addVideoToBatch true)
  dequeued,  \* history: per batch, the items getNextQueuedVideo returned
  granted,   \* history: per batch, whether a cancelBatch call has returned true
  inflight   \* history: per batch, the paths started and not yet completed or failed

vars == <<jobs, batches, now, events, ret, born, accepted, dequeued, granted, inflight>>

hist == <<born, accepted, dequeued, granted, inflight>>

Event(topic, id, payload) == [topic |-> topic, id |-> id, payload |-> payload]

Ret(op, id, val) == [op |-> op, id |-> id, val |-> val]

Init ==
  /\ jobs = << >>
  /\ batches = << >>
  /\ now = 0
  /\ events = << >>
  /\ ret = Ret("new", Null, "void")
  /\ born = << >>
  /\ accepted = [b \in BatchIds |-> << >>]
  /\ dequeued = [b \in BatchIds |-> << >>]
  /\ granted = [b \in BatchIds |-> FALSE]
  /\ inflight = [b \in BatchIds |-> {}]

\* The clock advances between calls.
Tick ==
  /\ now < MaxTicks * ClockStepMs
  /\ now' = now + ClockStepMs
  /\ ret' = Ret("tick", Null, "void")
  /\ events' = << >>
  /\ UNCHANGED <<jobs, batches, hist>>

\* ------------------------------------------------------------- job registry

NewJob(id) ==
  [id |-> id, status |-> "pending", progress |-> Nothing, result |-> Null,
   error |-> Null, startedAt |-> now, completedAt |-> Nothing]

createJob(id) ==
  /\ jobs' = Put(jobs, id, NewJob(id))
  /\ born' = Put(born, id, now)
  /\ ret' = Ret("createJob", id, "job")
  /\ events' = << >>
  /\ UNCHANGED <<batches, now, accepted, dequeued, granted, inflight>>

updateProgress(id, progress) ==
  /\ IF id \in DOMAIN jobs
       THEN /\ jobs' = [jobs EXCEPT ![id].status = "running", ![id].progress = Some(progress)]
            /\ events' = << Event("progress", id, progress) >>
       ELSE /\ UNCHANGED jobs
            /\ events' = << >>
  /\ ret' = Ret("updateProgress", id, "void")
  /\ UNCHANGED <<batches, now, hist>>

\* Mutant of completeJob: the event emitted outside the test for the job.
completeJobUnchecked(id, result) ==
  /\ IF id \in DOMAIN jobs
       THEN jobs' = [jobs EXCEPT ![id].status = "completed", ![id].result = result,
                                 ![id].completedAt = Some(now)]
       ELSE UNCHANGED jobs
  /\ events' = << Event("complete", id, [result |-> result]) >>
  /\ ret' = Ret("completeJob", id, "void")
  /\ UNCHANGED <<batches, now, hist>>

completeJob(id, result) ==
  /\ IF id \in DOMAIN jobs
       THEN /\ jobs' = [jobs EXCEPT ![id].status = "completed", ![id].result = result,
                                    ![id].completedAt = Some(now)]
            /\ events' = << Event("complete", id, [result |-> result]) >>
       ELSE /\ UNCHANGED jobs
            /\ events' = << >>
  /\ ret' = Ret("completeJob", id, "void")
  /\ UNCHANGED <<batches, now, hist>>

\* Mutant of failJob: a job that is already completed or failed is left alone.
failJobOnce(id, error) ==
  /\ IF id \in DOMAIN jobs /\ jobs[id].status \notin {"completed", "failed"}
       THEN /\ jobs' = [jobs EXCEPT ![id].status = "failed", ![id].error = error,
                                    ![id].completedAt = Some(now)]
            /\ events' = << Event("error", id, [error |-> error]) >>
       ELSE /\ UNCHANGED jobs
            /\ events' = << >>
  /\ ret' = Ret("failJob", id, "void")
  /\ UNCHANGED <<batches, now, hist>>

failJob(id, error) ==
  /\ IF id \in DOMAIN jobs
       THEN /\ jobs' = [jobs EXCEPT ![id].status = "failed", ![id].error = error,
                                    ![id].completedAt = Some(now)]
            /\ events' = << Event("error", id, [error |-> error]) >>
       ELSE /\ UNCHANGED jobs
            /\ events' = << >>
  /\ ret' = Ret("failJob", id, "void")
  /\ UNCHANGED <<batches, now, hist>>

\* ------------------------------------------------------------------ cleanup

\* Mutant of Expired: the comparison made inclusive.
ExpiredInclusive(startedAt, t) == startedAt <= t - RetentionMs

\* startedAt.getTime() < oneHourAgo, with oneHourAgo = Date.now() - 60 * 60 * 1000
Expired(startedAt, t) == startedAt < t - RetentionMs

cleanup ==
  /\ jobs' = Remove(jobs, {id \in DOMAIN jobs : Expired(jobs[id].startedAt, now)})
  /\ batches' = Remove(batches, {id \in DOMAIN batches : Expired(batches[id].startedAt, now)})
  /\ ret' = Ret("cleanup", Null, "void")
  /\ events' = << >>
  /\ UNCHANGED <<now, hist>>

\* ------------------------------------------------------------ batch creation

NewBatch(batchId, videos, model, fps, uploadsComplete) ==
  [batchId |-> batchId, videos |-> videos, videoQueue |-> MapToItems(videos),
   originalNames |-> << >>, model |-> model, fps |-> fps, currentIndex |-> -1,
   currentJobId |-> Null, completed |-> << >>, failed |-> << >>, results |-> << >>,
   status |-> "pending", uploadsComplete |-> uploadsComplete, startedAt |-> now,
   completedAt |-> Nothing]

\* uuidv4(): an id no batch was created under before
Fresh(batchId) == batchId \in BatchIds \ DOMAIN born

\* Legacy batches have all videos upfront.
createBatch(batchId, videos, model, fps) ==
  /\ Fresh(batchId)
  /\ batches' = Put(batches, batchId, NewBatch(batchId, videos, model, fps, TRUE))
  /\ born' = Put(born, batchId, now)
  /\ accepted' = [accepted EXCEPT ![batchId] = MapToItems(videos)]
  /\ ret' = Ret("createBatch", batchId, "batch")
  /\ events' = << >>
  /\ UNCHANGED <<jobs, now, dequeued, granted, inflight>>

createEmptyBatch(batchId, model, fps) ==
  /\ Fresh(batchId)
  /\ batches' = Put(batches, batchId, NewBatch(batchId, << >>, model, fps, FALSE))
  /\ born' = Put(born, batchId, now)
  /\ ret' = Ret("createEmptyBatch", batchId, "batch")
  /\ events' = << Event("batch:created", batchId, [batchId |-> batchId]) >>
  /\ UNCHANGED <<jobs, now, accepted, dequeued, granted, inflight>>

\* ------------------------------------------------------------------- queue

\* Mutant of AddRejected: the test for 'cancelled' forgotten.
AddRejectedCompletedOnly(b) ==
  IF b \notin DOMAIN batches THEN TRUE ELSE batches[b].status = "completed"

\* !batch || batch.status === 'completed' || batch.status === 'cancelled'
AddRejected(b) ==
  \/ b \notin DOMAIN batches
  \/ batches[b].status = "completed"
  \/ batches[b].status = "cancelled"

addVideoToBatch(b, videoPath, originalName) ==
  /\ IF AddRejected(b) THEN TRUE ELSE Len(batches[b].videos) < MaxVideos
  /\ IF AddRejected(b)
       THEN /\ ret' = Ret("addVideoToBatch", b, FALSE)
            /\ events' = << >>
            /\ UNCHANGED <<batches, accepted>>
       ELSE LET item == [path |-> videoPath, originalName |-> originalName]
                videos == Append(batches[b].videos, videoPath)
                queue == Append(batches[b].videoQueue, item)
            IN /\ batches' = [batches EXCEPT
                     ![b].videos = videos,
                     ![b].videoQueue = queue,
                     ![b].originalNames = Put(@, videoPath, originalName)]
               /\ accepted' = [accepted EXCEPT ![b] = Append(@, item)]
               /\ events' = << Event("batch:video_added", b,
                                [path |-> videoPath, originalName |-> originalName,
                                 queueLength |-> Len(queue), total |-> Len(videos)]) >>
               /\ ret' = Ret("addVideoToBatch", b, TRUE)
  /\ UNCHANGED <<jobs, now, born, dequeued, granted, inflight>>

\* Mutant of markUploadsComplete: the flag set, the emit forgotten.
markUploadsCompleteSilent(b) ==
  /\ IF b \in DOMAIN batches
       THEN batches' = [batches EXCEPT ![b].uploadsComplete = TRUE]
       ELSE UNCHANGED <<batches>>
  /\ events' = << >>
  /\ ret' = Ret("markUploadsComplete", b, "void")
  /\ UNCHANGED <<jobs, now, hist>>

markUploadsComplete(b) ==
  /\ IF b \in DOMAIN batches
       THEN /\ batches' = [batches EXCEPT ![b].uploadsComplete = TRUE]
            /\ events' = << Event("batch:uploads_complete", b,
                             [total |-> Len(batches[b].videos)]) >>
       ELSE /\ UNCHANGED <<batches>>
            /\ events' = << >>
  /\ ret' = Ret("markUploadsComplete", b, "void")
  /\ UNCHANGED <<jobs, now, hist>>

\* Mutant of NothingQueued: a finished batch hands out nothing.
NothingQueuedOrTerminal(b) ==
  IF b \notin DOMAIN batches THEN TRUE
  ELSE Len(batches[b].videoQueue) = 0 \/ batches[b].status \in {"completed", "cancelled"}

\* !batch || batch.videoQueue.length === 0
NothingQueued(b) == b \notin DOMAIN batches \/ Len(batches[b].videoQueue) = 0

\* Mutant of ShiftHead: the element taken from the tail (pop for shift).
PopLast(queue) == queue[Len(queue)]

\* Array.prototype.shift: the element removed, and what is left
ShiftHead(queue) == Head(queue)

\* Mutant of ShiftRest: two elements removed where one is returned.
ShiftRestTwo(queue) == IF Len(queue) > 1 THEN Tail(Tail(queue)) ELSE Tail(queue)

ShiftRest(queue) == Tail(queue)

getNextQueuedVideo(b) ==
  /\ IF NothingQueued(b)
       THEN /\ ret' = Ret("getNextQueuedVideo", b, Nothing)
            /\ UNCHANGED <<batches, dequeued>>
       ELSE /\ ret' = Ret("getNextQueuedVideo", b, Some(ShiftHead(batches[b].videoQueue)))
            /\ batches' = [batches EXCEPT ![b].videoQueue = ShiftRest(@)]
            /\ dequeued' = [dequeued EXCEPT ![b] = Append(@, ShiftHead(batches[b].videoQueue))]
  /\ events' = << >>
  /\ UNCHANGED <<jobs, now, born, accepted, granted, inflight>>

\* Mutant of ShouldWait: the queue not consulted.
ShouldWaitIgnoringQueue(b) ==
  IF b \notin DOMAIN batches THEN FALSE ELSE ~batches[b].uploadsComplete

\* Wait if: uploads not complete AND queue is empty
ShouldWait(b) ==
  IF b \notin DOMAIN batches THEN FALSE
  ELSE ~batches[b].uploadsComplete /\ Len(batches[b].videoQueue) = 0

\* Mutant of IsDone: uploadsComplete not consulted.
IsDoneIgnoringUploads(b) ==
  IF b \notin DOMAIN batches THEN TRUE ELSE Len(batches[b].videoQueue) = 0

\* Mutant of IsDone: an unknown batch is not done.
IsDoneKnownOnly(b) ==
  IF b \notin DOMAIN batches THEN FALSE
  ELSE batches[b].uploadsComplete /\ Len(batches[b].videoQueue) = 0

\* Done if: uploads complete and queue empty
IsDone(b) ==
  IF b \notin DOMAIN batches THEN TRUE
  ELSE batches[b].uploadsComplete /\ Len(batches[b].videoQueue) = 0

\* batch?.status === 'cancelled'
IsCancelled(b) == b \in DOMAIN batches /\ batches[b].status = "cancelled"

Query(op, b, val) ==
  /\ ret' = Ret(op, b, val)
  /\ events' = << >>
  /\ UNCHANGED <<jobs, batches, now, hist>>

shouldBatchWait(b) == Query("shouldBatchWait", b, ShouldWait(b))

isBatchDone(b) == Query("isBatchDone", b, IsDone(b))

isBatchCancelled(b) == Query("isBatchCancelled", b, IsCancelled(b))

\* ------------------------------------------------------------ batch videos

\* The status startBatchVideo stores: 'running', whatever the status was.
StartStatus(old) == "running"

startBatchVideo(b, videoPath, jobId) ==
  /\ IF b \in DOMAIN batches
       THEN LET index == IndexOf(batches[b].videos, videoPath)
            IN /\ batches' = [batches EXCEPT
                     ![b].status = StartStatus(@),
                     ![b].currentIndex = index,
                     ![b].currentJobId = jobId]
               /\ inflight' = [inflight EXCEPT ![b] = @ \cup {videoPath}]
               /\ events' = << Event("batch:video_start", b,
                                [path |-> videoPath, index |-> index,
                                 total |-> Len(batches[b].videos)]) >>
       ELSE /\ UNCHANGED <<batches, inflight>>
            /\ events' = << >>
  /\ ret' = Ret("startBatchVideo", b, "void")
  /\ UNCHANGED <<jobs, now, born, accepted, dequeued, granted>>

\* Mutant of updateBatchVideoProgress: the aggregate event emitted first.
updateBatchVideoProgressSwapped(b, videoPath, progress) ==
  /\ IF b \in DOMAIN batches
       THEN events' =
              << Event("batch:progress", b,
                       [total |-> Len(batches[b].videos),
                        completed |-> Len(batches[b].completed),
                        failed |-> Len(batches[b].failed),
                        currentIndex |-> batches[b].currentIndex,
                        currentVideo |-> videoPath,
                        currentProgress |-> progress]),
                 Event("batch:video_progress", b,
                       [path |-> videoPath, stage |-> progress.stage,
                        percent |-> progress.percent, message |-> progress.message]) >>
       ELSE events' = << >>
  /\ ret' = Ret("updateBatchVideoProgress", b, "void")
  /\ UNCHANGED <<jobs, batches, now, hist>>

updateBatchVideoProgress(b, videoPath, progress) ==
  /\ IF b \in DOMAIN batches
       THEN events' =
              << Event("batch:video_progress", b,
                       [path |-> videoPath, stage |-> progress.stage,
                        percent |-> progress.percent, message |-> progress.message]),
                 Event("batch:progress", b,
                       [total |-> Len(batches[b].videos),
                        completed |-> Len(batches[b].completed),
                        failed |-> Len(batches[b].failed),
                        currentIndex |-> batches[b].currentIndex,
                        currentVideo |-> videoPath,
                        currentProgress |-> progress]) >>
       ELSE events' = << >>
  /\ ret' = Ret("updateBatchVideoProgress", b, "void")
  /\ UNCHANGED <<jobs, batches, now, hist>>

\* The model records at most MaxOutcomes outcomes per batch.
RoomForOutcome(b) ==
  b \in DOMAIN batches => Len(batches[b].completed) + Len(batches[b].failed) < MaxOutcomes

\* What is left in flight once an outcome is recorded for videoPath.
Finished(set, videoPath) == set \ {videoPath}

\* Mutant of ClearedJobId: the current job id left in place.
UnclearedJobId(old) == old

\* The current job id completeBatchVideo and failBatchVideo store: null.
ClearedJobId(old) == Null

\* Mutant of completeBatchVideo: the outcome of a cancelled batch discarded.
completeBatchVideoUnlessCancelled(b, videoPath, result) ==
  /\ RoomForOutcome(b)
  /\ IF b \in DOMAIN batches /\ ~IsCancelled(b)
       THEN LET completed == Append(batches[b].completed, videoPath)
            IN /\ batches' = [batches EXCEPT
                     ![b].completed = completed,
                     ![b].results = Put(@, videoPath, result),
                     ![b].currentJobId = Null]
               /\ inflight' = [inflight EXCEPT ![b] = @ \ {videoPath}]
               /\ events' = << Event("batch:video_complete", b,
                                [path |-> videoPath, result |-> result,
                                 completedCount |-> Len(completed),
                                 total |-> Len(batches[b].videos)]) >>
       ELSE /\ UNCHANGED <<batches, inflight>>
            /\ events' = << >>
  /\ ret' = Ret("completeBatchVideo", b, "void")
  /\ UNCHANGED <<jobs, now, born, accepted, dequeued, granted>>

completeBatchVideo(b, videoPath, result) ==
  /\ RoomForOutcome(b)
  /\ IF b \in DOMAIN batches
       THEN LET completed == Append(batches[b].completed, videoPath)
            IN /\ batches' = [batches EXCEPT
                     ![b].completed = completed,
                     ![b].results = Put(@, videoPath, result),
                     ![b].currentJobId = ClearedJobId(@)]
               /\ inflight' = [inflight EXCEPT ![b] = Finished(@, videoPath)]
               /\ events' = << Event("batch:video_complete", b,
                                [path |-> videoPath, result |-> result,
                                 completedCount |-> Len(completed),
                                 total |-> Len(batches[b].videos)]) >>
       ELSE /\ UNCHANGED <<batches, inflight>>
            /\ events' = << >>
  /\ ret' = Ret("completeBatchVideo", b, "void")
  /\ UNCHANGED <<jobs, now, born, accepted, dequeued, granted>>

\* Mutant of failBatchVideo: a failed video aborts the batch and drops its queue.
failBatchVideoAborting(b, videoPath, error) ==
  /\ RoomForOutcome(b)
  /\ IF b \in DOMAIN batches
       THEN LET failed == Append(batches[b].failed, [path |-> videoPath, error |-> error])
            IN /\ batches' = [batches EXCEPT
                     ![b].failed = failed,
                     ![b].currentJobId = Null,
                     ![b].status = "cancelled",
                     ![b].videoQueue = << >>]
               /\ inflight' = [inflight EXCEPT ![b] = @ \ {videoPath}]
               /\ events' = << Event("batch:video_error", b,
                                [path |-> videoPath, error |-> error,
                                 failedCount |-> Len(failed),
                                 total |-> Len(batches[b].videos)]) >>
       ELSE /\ UNCHANGED <<batches, inflight>>
            /\ events' = << >>
  /\ ret' = Ret("failBatchVideo", b, "void")
  /\ UNCHANGED <<jobs, now, born, accepted, dequeued, granted>>

failBatchVideo(b, videoPath, error) ==
  /\ RoomForOutcome(b)
  /\ IF b \in DOMAIN batches
       THEN LET failed == Append(batches[b].failed, [path |-> videoPath, error |-> error])
            IN /\ batches' = [batches EXCEPT
                     ![b].failed = failed,
                     ![b].currentJobId = ClearedJobId(@)]
               /\ inflight' = [inflight EXCEPT ![b] = Finished(@, videoPath)]
               /\ events' = << Event("batch:video_error", b,
                                [path |-> videoPath, error |-> error,
                                 failedCount |-> Len(failed),
                                 total |-> Len(batches[b].videos)]) >>
       ELSE /\ UNCHANGED <<batches, inflight>>
            /\ events' = << >>
  /\ ret' = Ret("failBatchVideo", b, "void")
  /\ UNCHANGED <<jobs, now, born, accepted, dequeued, granted>>

\* Count skipped videos as completed (they already have results).
skipBatchVideo(b, videoPath, reason) ==
  /\ RoomForOutcome(b)
  /\ IF b \in DOMAIN batches
       THEN LET completed == Append(batches[b].completed, videoPath)
            IN /\ batches' = [batches EXCEPT ![b].completed = completed]
               /\ events' = << Event("batch:video_skipped", b,
                                [path |-> videoPath, reason |-> reason,
                                 completedCount |-> Len(completed),
                                 total |-> Len(batches[b].videos)]) >>
       ELSE /\ UNCHANGED batches
            /\ events' = << >>
  /\ ret' = Ret("skipBatchVideo", b, "void")
  /\ UNCHANGED <<jobs, now, hist>>

\* ------------------------------------------------------- batch termination

\* Mutant of CompletedJobId: the current job id left in place.
KeptJobId(old) == old

\* The current job id completeBatch stores: null.
CompletedJobId(old) == Null

completeBatch(b) ==
  /\ IF b \in DOMAIN batches
       THEN /\ batches' = [batches EXCEPT
                  ![b].status = "completed",
                  ![b].completedAt = Some(now),
                  ![b].currentJobId = CompletedJobId(@)]
            /\ events' = << Event("batch:complete", b,
                             [completed |-> batches[b].completed,
                              failed |-> batches[b].failed,
                              total |-> Len(batches[b].videos)]) >>
       ELSE /\ UNCHANGED batches
            /\ events' = << >>
  /\ ret' = Ret("completeBatch", b, "void")
  /\ UNCHANGED <<jobs, now, hist>>

\* Mutant of CancelAccepted: a pending batch can be cancelled too.
CancelAcceptedUnlessFinished(b) ==
  b \in DOMAIN batches /\ batches[b].status \in {"pending", "running"}

\* batch && batch.status === 'running'
CancelAccepted(b) == b \in DOMAIN batches /\ batches[b].status = "running"

cancelBatch(b) ==
  /\ IF CancelAccepted(b)
       THEN /\ batches' = [batches EXCEPT
                  ![b].status = "cancelled",
                  ![b].completedAt = Some(now)]
            /\ granted' = [granted EXCEPT ![b] = TRUE]
            /\ events' = << Event("batch:cancelled", b,
                             [completed |-> batches[b].completed,
                              failed |-> batches[b].failed,
                              remaining |-> Len(batches[b].videos)
                                            - Len(batches[b].completed)
                                            - Len(batches[b].failed)]) >>
            /\ ret' = Ret("cancelBatch", b, TRUE)
       ELSE /\ UNCHANGED <<batches, granted>>
            /\ events' = << >>
            /\ ret' = Ret("cancelBatch", b, FALSE)
  /\ UNCHANGED <<jobs, now, born, accepted, dequeued, inflight>>

\* ----------------------------------------------------------- specifications

\* The batch coordinator: every method that changes a batch, called in any
\* order with any arguments.  No method of the coordinator reads the clock or
\* the job registry.
Next ==
  \/ \E b \in BatchIds, videos \in SeqsUpTo(Paths, MaxVideos), m \in Models, f \in Fpss :
       createBatch(b, videos, m, f)
  \/ \E b \in BatchIds, m \in Models, f \in Fpss : createEmptyBatch(b, m, f)
  \/ \E b \in BatchIds, p \in Paths, n \in Names : addVideoToBatch(b, p, n)
  \/ \E b \in BatchIds : markUploadsComplete(b)
  \/ \E b \in BatchIds : getNextQueuedVideo(b)
  \/ \E b \in BatchIds, p \in Paths, j \in JobIds : startBatchVideo(b, p, j)
  \/ \E b \in BatchIds, p \in Paths, r \in Results : completeBatchVideo(b, p, r)
  \/ \E b \in BatchIds, p \in Paths, e \in Errors : failBatchVideo(b, p, e)
  \/ \E b \in BatchIds, p \in Paths, r \in Reasons : skipBatchVideo(b, p, r)
  \/ \E b \in BatchIds : completeBatch(b)
  \/ \E b \in BatchIds : cancelBatch(b)

Spec == Init /\ [][Next]_vars

\* The current job: every method that reads or writes currentJobId, currentIndex,
\* the history list or the status.  The methods left out (markUploadsComplete,
\* getNextQueuedVideo, skipBatchVideo) write only uploadsComplete, the queue and
\* the completed list.
NextFlight ==
  \/ \E b \in BatchIds, videos \in SeqsUpTo(Paths, MaxVideos), m \in Models, f \in Fpss :
       createBatch(b, videos, m, f)
  \/ \E b \in BatchIds, m \in Models, f \in Fpss : createEmptyBatch(b, m, f)
  \/ \E b \in BatchIds, p \in Paths, n \in Names : addVideoToBatch(b, p, n)
  \/ \E b \in BatchIds, p \in Paths, j \in JobIds : startBatchVideo(b, p, j)
  \/ \E b \in BatchIds, p \in Paths, r \in Results : completeBatchVideo(b, p, r)
  \/ \E b \in BatchIds, p \in Paths, e \in Errors : failBatchVideo(b, p, e)
  \/ \E b \in BatchIds : completeBatch(b)
  \/ \E b \in BatchIds : cancelBatch(b)

SpecFlight == Init /\ [][NextFlight]_vars

\* The queue and its observers: every method that reads or writes the history
\* list, the queue, the name mapping, uploadsComplete or the status, and the
\* three predicates the driving loop polls.  The methods left out
\* (completeBatchVideo, failBatchVideo, skipBatchVideo) write only completed,
\* failed, results and currentJobId, which no method of this specification reads.
NextQueue ==
  \/ \E b \in BatchIds, videos \in SeqsUpTo(Paths, MaxVideos), m \in Models, f \in Fpss :
       createBatch(b, videos, m, f)
  \/ \E b \in BatchIds, m \in Models, f \in Fpss : createEmptyBatch(b, m, f)
  \/ \E b \in BatchIds, p \in Paths, n \in Names : addVideoToBatch(b, p, n)
  \/ \E b \in BatchIds : markUploadsComplete(b)
  \/ \E b \in BatchIds : getNextQueuedVideo(b)
  \/ \E b \in BatchIds : shouldBatchWait(b)
  \/ \E b \in BatchIds : isBatchDone(b)
  \/ \E b \in BatchIds : isBatchCancelled(b)
  \/ \E b \in BatchIds, p \in Paths, j \in JobIds : startBatchVideo(b, p, j)
  \/ \E b \in BatchIds : completeBatch(b)
  \/ \E b \in BatchIds : cancelBatch(b)

SpecQueue == Init /\ [][NextQueue]_vars

\* The sweep: the clock, cleanup, the creation and the end of jobs, the creation
\* of batches, and the methods that write a batch's status and currentJobId,
\* on one path.  Jobs are registered under one id; startBatchVideo is given any
\* id of JobIds, registered or not, as the code lets it.
SweepPaths == {"/a"}
SweepJobIds == {"j1"}

NextSweep ==
  \/ Tick
  \/ cleanup
  \/ \E id \in SweepJobIds : createJob(id)
  \/ \E id \in SweepJobIds, r \in Results : completeJob(id, r)
  \/ \E id \in SweepJobIds, e \in Errors : failJob(id, e)
  \/ \E b \in BatchIds, videos \in SeqsUpTo(SweepPaths, 1), m \in Models, f \in Fpss :
       createBatch(b, videos, m, f)
  \/ \E b \in BatchIds, m \in Models, f \in Fpss : createEmptyBatch(b, m, f)
  \/ \E b \in BatchIds, p \in SweepPaths, j \in JobIds : startBatchVideo(b, p, j)
  \/ \E b \in BatchIds, p \in SweepPaths, r \in Results : completeBatchVideo(b, p, r)
  \/ \E b \in BatchIds : completeBatch(b)
  \/ \E b \in BatchIds : cancelBatch(b)

SpecSweep == Init /\ [][NextSweep]_vars

\* The job registry alone: the job methods, the clock and the sweep.
NextJobs ==
  \/ Tick
  \/ cleanup
  \/ \E id \in JobIds : createJob(id)
  \/ \E id \in JobIds, p \in Progresses : updateProgress(id, p)
  \/ \E id \in JobIds, r \in Results : completeJob(id, r)
  \/ \E id \in JobIds, e \in Errors : failJob(id, e)

SpecJobs == Init /\ [][NextJobs]_vars

\* Every call that writes a record or publishes an event, jobs and batches
\* together, on one path and one job id; progress is reported with either of
\* two snapshots.  No method here reads the clock.
Snapshots == Progresses \cup {[stage |-> "uploading", percent |-> 0, message |-> "up"]}

NextCalls ==
  \/ \E id \in SweepJobIds : createJob(id)
  \/ \E id \in SweepJobIds, p \in Progresses : updateProgress(id, p)
  \/ \E id \in SweepJobIds, r \in Results : completeJob(id, r)
  \/ \E id \in SweepJobIds, e \in Errors : failJob(id, e)
  \/ \E b \in BatchIds, videos \in SeqsUpTo(SweepPaths, 1), m \in Models, f \in Fpss :
       createBatch(b, videos, m, f)
  \/ \E b \in BatchIds, m \in Models, f \in Fpss : createEmptyBatch(b, m, f)
  \/ \E b \in BatchIds, p \in SweepPaths, n \in Names : addVideoToBatch(b, p, n)
  \/ \E b \in BatchIds : markUploadsComplete(b)
  \/ \E b \in BatchIds : getNextQueuedVideo(b)
  \/ \E b \in BatchIds, p \in SweepPaths, j \in SweepJobIds : startBatchVideo(b, p, j)
  \/ \E b \in BatchIds, p \in SweepPaths, s \in Snapshots : updateBatchVideoProgress(b, p, s)
  \/ \E b \in BatchIds, p \in SweepPaths, r \in Results : completeBatchVideo(b, p, r)
  \/ \E b \in BatchIds, p \in SweepPaths, e \in Errors : failBatchVideo(b, p, e)
  \/ \E b \in BatchIds, p \in SweepPaths, r \in Reasons : skipBatchVideo(b, p, r)
  \/ \E b \in BatchIds : completeBatch(b)
  \/ \E b \in BatchIds : cancelBatch(b)

SpecCalls == Init /\ [][NextCalls]_vars

\* Calls on ids that are not in the maps: every method that takes a batch id,
\* on one path, before the batch is created, during its life and after the
\* sweep has purged it; and every method that looks a job up, on an id no job
\* was created under.
NextNotFound ==
  \/ Tick
  \/ cleanup
  \/ \E id \in SweepJobIds, p \in Progresses : updateProgress(id, p)
  \/ \E id \in SweepJobIds, r \in Results : completeJob(id, r)
  \/ \E id \in SweepJobIds, e \in Errors : failJob(id, e)
  \/ \E b \in BatchIds, videos \in SeqsUpTo(SweepPaths, 1), m \in Models, f \in Fpss :
       createBatch(b, videos, m, f)
  \/ \E b \in BatchIds, m \in Models, f \in Fpss : createEmptyBatch(b, m, f)
  \/ \E b \in BatchIds, p \in SweepPaths, n \in Names : addVideoToBatch(b, p, n)
  \/ \E b \in BatchIds : markUploadsComplete(b)
  \/ \E b \in BatchIds : getNextQueuedVideo(b)
  \/ \E b \in BatchIds : shouldBatchWait(b)
  \/ \E b \in BatchIds : isBatchDone(b)
  \/ \E b \in BatchIds : isBatchCancelled(b)
  \/ \E b \in BatchIds, p \in SweepPaths, j \in SweepJobIds : startBatchVideo(b, p, j)
  \/ \E b \in BatchIds, p \in SweepPaths, s \in Progresses : updateBatchVideoProgress(b, p, s)
  \/ \E b \in BatchIds, p \in SweepPaths, r \in Results : completeBatchVideo(b, p, r)
  \/ \E b \in BatchIds, p \in SweepPaths, e \in Errors : failBatchVideo(b, p, e)
  \/ \E b \in BatchIds, p \in SweepPaths, r \in Reasons : skipBatchVideo(b, p, r)
  \/ \E b \in BatchIds : completeBatch(b)
  \/ \E b \in BatchIds : cancelBatch(b)

SpecNotFound == Init /\ [][NextNotFound]_vars

\* The drain under failures: the methods that write the queue or the status,
\* and failBatchVideo.
NextDrain ==
  \/ \E b \in BatchIds, videos \in SeqsUpTo(Paths, MaxVideos), m \in Models, f \in Fpss :
       createBatch(b, videos, m, f)
  \/ \E b \in BatchIds, m \in Models, f \in Fpss : createEmptyBatch(b, m, f)
  \/ \E b \in BatchIds, p \in Paths, n \in Names : addVideoToBatch(b, p, n)
  \/ \E b \in BatchIds : getNextQueuedVideo(b)
  \/ \E b \in BatchIds, p \in Paths, j \in SweepJobIds : startBatchVideo(b, p, j)
  \/ \E b \in BatchIds, p \in Paths, e \in Errors : failBatchVideo(b, p, e)
  \/ \E b \in BatchIds : completeBatch(b)
  \/ \E b \in BatchIds : cancelBatch(b)

SpecDrain == Init /\ [][NextDrain]_vars

\* ------------------------------------------------------------------ claims

Terminal == {"completed", "cancelled"}

PathsOf(items) == [i \in 1..Len(items) |-> items[i].path]

Range(seq) == {seq[i] : i \in 1..Len(seq)}

\* C1 (SpecQueue).  For every batch, the items handed out by getNextQueuedVideo,
\* followed by the items still queued, are exactly the items accepted (by
\* createBatch and by every addVideoToBatch that returned true), in the order
\* they were accepted: nothing is lost, duplicated or reordered, and an item
\* returned is the one accepted earliest among those not yet returned.
FifoExactlyOnce ==
  \A b \in DOMAIN batches :
    /\ dequeued[b] \o batches[b].videoQueue = accepted[b]
    /\ PathsOf(accepted[b]) = batches[b].videos
    /\ (ret.op = "getNextQueuedVideo" /\ ret.id = b /\ ret.val # Nothing)
         => /\ Len(dequeued[b]) > 0
            /\ ret.val = Some(accepted[b][Len(dequeued[b])])

\* Two different items were added to a batch created empty, and both have been
\* handed out, the second by the call that just returned.
FifoWitness ==
  \E b \in DOMAIN batches :
    /\ ~batches[b].uploadsComplete
    /\ Len(dequeued[b]) = 2
    /\ dequeued[b][1] # dequeued[b][2]
    /\ batches[b].videoQueue = << >>
    /\ ret.op = "getNextQueuedVideo" /\ ret.id = b /\ ret.val = Some(dequeued[b][2])

\* C2 (SpecQueue).  isBatchDone on an existing batch returns true exactly when
\* uploadsComplete is true and the queue is empty, so it returns false while
\* uploadsComplete is false; createBatch leaves uploadsComplete true, and no
\* call ever sets uploadsComplete back to false, so a batch made by createBatch
\* is done whenever its queue is empty.
DoneIffUploadsCompleteAndDrained ==
  /\ [](/\ \A b \in DOMAIN batches :
             (ret.op = "isBatchDone" /\ ret.id = b)
               => /\ ret.val = (batches[b].uploadsComplete /\ batches[b].videoQueue = << >>)
                  /\ (~batches[b].uploadsComplete => ret.val = FALSE)
        /\ \A b \in DOMAIN batches :
             (ret.op = "createBatch" /\ ret.id = b)
               => /\ batches[b].uploadsComplete
                  /\ IsDone(b) = (batches[b].videoQueue = << >>))
  /\ [][\A b \in DOMAIN batches :
          (b \in DOMAIN batches' /\ batches[b].uploadsComplete)
            => batches'[b].uploadsComplete]_vars

\* A batch made by createBatch (no item of it came from addVideoToBatch) has
\* been drained by getNextQueuedVideo and isBatchDone has just returned true.
DoneWitness ==
  \E b \in DOMAIN batches :
    /\ ret.op = "isBatchDone" /\ ret.id = b /\ ret.val = TRUE
    /\ Len(dequeued[b]) > 0
    /\ batches[b].originalNames = << >>
    /\ batches[b].status = "pending"

\* C3 (Spec).  The claim as stated: a cancelBatch call returns true only if no
\* earlier cancelBatch call on that batch returned true.
CancelGrantedOnce ==
  [][\A b \in BatchIds :
       (ret'.op = "cancelBatch" /\ ret'.id = b /\ ret'.val = TRUE) => ~granted[b]]_vars

\* C4 (Spec).  The claim as stated: a step taken while a batch is completed or
\* cancelled leaves its status as it was.
TerminalIsFinal ==
  [][\A b \in DOMAIN batches :
       (batches[b].status \in Terminal /\ b \in DOMAIN batches')
         => batches'[b].status = batches[b].status]_vars

\* C5 (SpecQueue).  The claim as stated: getNextQueuedVideo on a completed or
\* cancelled batch returns null and leaves the queue unchanged.
NoDequeueWhenTerminal ==
  [][\A b \in DOMAIN batches :
       (ret'.op = "getNextQueuedVideo" /\ ret'.id = b /\ batches[b].status \in Terminal)
         => /\ ret'.val = Nothing
            /\ batches'[b].videoQueue = batches[b].videoQueue]_vars

\* C5 as amended (SpecQueue).  getNextQueuedVideo does not look at the status:
\* on an existing batch, whatever its status, it returns null and changes
\* nothing exactly when the queue is empty, and otherwise removes and returns
\* the head of the queue.
DequeueIgnoresStatus ==
  [][\A b \in DOMAIN batches :
       (ret'.op = "getNextQueuedVideo" /\ ret'.id = b)
         => IF batches[b].videoQueue = << >>
              THEN ret'.val = Nothing /\ batches' = batches
              ELSE /\ ret'.val = Some(Head(batches[b].videoQueue))
                   /\ batches'[b].videoQueue = Tail(batches[b].videoQueue)
                   /\ batches'[b].status = batches[b].status]_vars

\* getNextQueuedVideo has just handed out an item of a cancelled batch.
DequeueFromCancelledWitness ==
  \E b \in DOMAIN batches :
    /\ ret.op = "getNextQueuedVideo" /\ ret.id = b /\ ret.val # Nothing
    /\ batches[b].status = "cancelled"

\* C6 (SpecQueue).  addVideoToBatch on a completed or cancelled batch returns
\* false, changes nothing of the batch and publishes no event; on a pending or
\* running batch it returns true and appends the item to the tail of the
\* history list and of the queue, and records its name.
AddOnlyWhileOpen ==
  [][\A b \in DOMAIN batches :
       (ret'.op = "addVideoToBatch" /\ ret'.id = b)
         => IF batches[b].status \in Terminal
              THEN /\ ret'.val = FALSE
                   /\ batches' = batches
                   /\ events' = << >>
              ELSE /\ ret'.val = TRUE
                   /\ \E p \in Paths, n \in Names :
                        /\ batches'[b].videos = Append(batches[b].videos, p)
                        /\ batches'[b].videoQueue =
                             Append(batches[b].videoQueue, [path |-> p, originalName |-> n])
                        /\ batches'[b].originalNames = Put(batches[b].originalNames, p, n)]_vars

\* addVideoToBatch has just been refused on a cancelled batch that still has
\* an item queued.
AddRefusedWitness ==
  \E b \in DOMAIN batches :
    /\ ret.op = "addVideoToBatch" /\ ret.id = b /\ ret.val = FALSE
    /\ batches[b].status = "cancelled"
    /\ Len(batches[b].videoQueue) > 0
    /\ events = << >>

\* C7 (SpecSweep).  The claim as stated: a non-null currentJobId means the batch
\* is running and a Job with that id is in the registry.
CurrentJobMeansRunning ==
  \A b \in DOMAIN batches :
    batches[b].currentJobId # Null
      => /\ batches[b].status = "running"
         /\ batches[b].currentJobId \in DOMAIN jobs

\* C7 as amended (SpecSweep).  A non-null currentJobId means the batch is running
\* or cancelled: cancelBatch leaves currentJobId in place, completeBatch,
\* completeBatchVideo and failBatchVideo clear it.
CurrentJobMeansRunningOrCancelled ==
  \A b \in DOMAIN batches :
    batches[b].currentJobId # Null => batches[b].status \in {"running", "cancelled"}

\* A batch was cancelled while a video was in flight: it is cancelled, its
\* currentJobId is still set, and the Job exists.
CancelledInFlightWitness ==
  \E b \in DOMAIN batches :
    /\ batches[b].status = "cancelled"
    /\ batches[b].currentJobId \in DOMAIN jobs
    /\ ret.op = "cancelBatch" /\ ret.id = b /\ ret.val = TRUE

\* C8 (Spec).  The claim as stated: no path is both in the completed list and
\* in the failed list.
CompletedFailedDisjoint ==
  \A b \in DOMAIN batches :
    Range(batches[b].completed) \cap Range(PathsOf(batches[b].failed)) = {}

\* C9 (SpecFlight).  The claim as stated: at most one video of a batch is started and
\* not yet completed or failed.
SingleFlight ==
  \A b \in DOMAIN batches : Cardinality(inflight[b]) <= 1

\* C9 as amended (SpecFlight).  A batch records one current job, that of the latest
\* startBatchVideo: whenever currentJobId is non-null, the video at currentIndex
\* of the history list (if currentIndex is not -1) is started and not yet
\* completed or failed, and some video is.  startBatchVideo is not refused
\* while currentJobId is non-null; it replaces it.
CurrentJobIsInFlight ==
  \A b \in DOMAIN batches :
    /\ batches[b].currentJobId # Null
         => /\ inflight[b] # {}
            /\ (batches[b].currentIndex >= 0
                  => batches[b].videos[batches[b].currentIndex + 1] \in inflight[b])
    /\ (ret.op = "startBatchVideo" /\ ret.id = b)
         => /\ batches[b].currentJobId \in JobIds
            /\ batches[b].status = "running"

\* Two videos of a batch are started and unfinished, and the second start
\* replaced the current job id of the first.
TwoInFlightWitness ==
  \E b \in DOMAIN batches :
    /\ Cardinality(inflight[b]) = 2
    /\ batches[b].currentJobId # Null
    /\ ret.op = "startBatchVideo" /\ ret.id = b

\* C10 (SpecSweep).  A record (Job or BatchJob) whose age now - startedAt is at
\* most the retention window is present, whatever sweeps have run; right after
\* a sweep a record is present exactly when its age is not greater than the
\* window.  Only cleanup removes records, and it looks at nothing but the age.
Present(id) == id \in (DOMAIN jobs) \cup (DOMAIN batches)

SweepPurgesExactlyTheAged ==
  /\ \A id \in DOMAIN born : (now - born[id] <= RetentionMs) => Present(id)
  /\ ret.op = "cleanup"
       => \A id \in DOMAIN born : Present(id) <=> ~(now - born[id] > RetentionMs)
  /\ \A id \in DOMAIN jobs : jobs[id].startedAt = born[id]
  /\ \A id \in DOMAIN batches : batches[id].startedAt = born[id]

\* A sweep has just purged a running batch older than the window and kept a
\* job whose age is exactly the window.
SweepWitness ==
  /\ ret.op = "cleanup"
  /\ \E b \in BatchIds : b \in DOMAIN born /\ b \notin DOMAIN batches
                         /\ inflight[b] # {}
  /\ \E j \in DOMAIN jobs : now - jobs[j].startedAt = RetentionMs

\* C11 (SpecCalls).  The claim as stated: a call of one of the fifteen methods
\* that changes a job or a batch publishes exactly one event.
MutatingCalls ==
  {"createJob", "createBatch", "createEmptyBatch", "addVideoToBatch",
   "markUploadsComplete", "getNextQueuedVideo", "startBatchVideo",
   "completeBatchVideo", "failBatchVideo", "skipBatchVideo", "completeBatch",
   "cancelBatch", "updateProgress", "completeJob", "failJob"}

OneEventPerMutatingCall ==
  [][(ret'.op \in MutatingCalls /\ (jobs' # jobs \/ batches' # batches))
       => Len(events') = 1]_vars

\* C11 as amended (SpecCalls).  createJob, createBatch and getNextQueuedVideo
\* publish no event, whatever they change.  A call of one of the other twelve
\* methods that changes a job or a batch publishes exactly one event, of the
\* kind of that method and for the id the call was given; a call that is
\* refused (addVideoToBatch or cancelBatch returning false) publishes none; and
\* no call of the fifteen publishes more than one.
SilentCalls == {"createJob", "createBatch", "getNextQueuedVideo"}

TopicOf(op) ==
  CASE op = "createEmptyBatch" -> "batch:created"
    [] op = "addVideoToBatch" -> "batch:video_added"
    [] op = "markUploadsComplete" -> "batch:uploads_complete"
    [] op = "startBatchVideo" -> "batch:video_start"
    [] op = "completeBatchVideo" -> "batch:video_complete"
    [] op = "failBatchVideo" -> "batch:video_error"
    [] op = "skipBatchVideo" -> "batch:video_skipped"
    [] op = "completeBatch" -> "batch:complete"
    [] op = "cancelBatch" -> "batch:cancelled"
    [] op = "updateProgress" -> "progress"
    [] op = "completeJob" -> "complete"
    [] op = "failJob" -> "error"

OneEventPerPublishingCall ==
  [][/\ ret'.op \in SilentCalls => events' = << >>
     /\ (ret'.op \in MutatingCalls \ SilentCalls /\ (jobs' # jobs \/ batches' # batches))
          => /\ Len(events') = 1
             /\ events'[1].topic = TopicOf(ret'.op)
             /\ events'[1].id = ret'.id
     /\ (ret'.op \in {"addVideoToBatch", "cancelBatch"} /\ ret'.val = FALSE)
          => events' = << >>
     /\ ret'.op \in MutatingCalls => Len(events') <= 1]_vars

\* getNextQueuedVideo has just removed an item from the queue of a running
\* batch and published nothing.
SilentDequeueWitness ==
  \E b \in DOMAIN batches :
    /\ ret.op = "getNextQueuedVideo" /\ ret.id = b /\ ret.val # Nothing
    /\ batches[b].status = "running"
    /\ events = << >>

\* C12 (SpecCalls).  A call of updateBatchVideoProgress on an existing batch
\* changes no record and publishes exactly two events, in this order and with
\* nothing between them: batch:video_progress with the path and the stage,
\* percent and message of the snapshot it was given, then batch:progress with
\* that same path as currentVideo, that same snapshot as currentProgress and
\* the batch's counts; no other call publishes an event of either kind.  The
\* events a call publishes are published before it returns, so the pairs of
\* successive calls follow one another in call order.
VideoProgressEvent(b, p, s) ==
  Event("batch:video_progress", b,
        [path |-> p, stage |-> s.stage, percent |-> s.percent, message |-> s.message])

BatchProgressEvent(b, p, s) ==
  Event("batch:progress", b,
        [total |-> Len(batches[b].videos), completed |-> Len(batches[b].completed),
         failed |-> Len(batches[b].failed), currentIndex |-> batches[b].currentIndex,
         currentVideo |-> p, currentProgress |-> s])

ProgressEventsPaired ==
  [][/\ \A b \in DOMAIN batches :
          (ret'.op = "updateBatchVideoProgress" /\ ret'.id = b)
            => /\ \E p \in Paths, s \in Snapshots :
                    events' = << VideoProgressEvent(b, p, s), BatchProgressEvent(b, p, s) >>
               /\ batches' = batches
               /\ jobs' = jobs
     /\ ret'.op # "updateBatchVideoProgress"
          => \A i \in 1..Len(events') :
               events'[i].topic \notin {"batch:video_progress", "batch:progress"}]_vars

\* updateBatchVideoProgress has just reported the second snapshot on a batch
\* that has one video completed and the current one in flight.
ProgressPairWitness ==
  \E b \in DOMAIN batches :
    /\ ret.op = "updateBatchVideoProgress" /\ ret.id = b
    /\ Len(events) = 2
    /\ events[1].topic = "batch:video_progress" /\ events[1].payload.stage = "uploading"
    /\ events[2].topic = "batch:progress" /\ events[2].payload.currentProgress.stage = "uploading"
    /\ events[2].payload.completed = 1
    /\ batches[b].currentJobId # Null

\* C13 (SpecNotFound).  A call of a method that looks a batch up, given an id
\* that is not in the batch map (never created, or purged by cleanup), and a
\* call of a method that looks a job up, given an id that is not in the job
\* map, returns, changes no job and no batch, and publishes no event;
\* addVideoToBatch and cancelBatch then return false and getNextQueuedVideo
\* returns null.
BatchLookups ==
  {"addVideoToBatch", "markUploadsComplete", "getNextQueuedVideo", "shouldBatchWait",
   "isBatchDone", "isBatchCancelled", "startBatchVideo", "updateBatchVideoProgress",
   "completeBatchVideo", "failBatchVideo", "skipBatchVideo", "completeBatch",
   "cancelBatch"}

JobLookups == {"updateProgress", "completeJob", "failJob"}

UnknownIdIsNoOp ==
  [][((ret'.op \in BatchLookups /\ ret'.id \notin DOMAIN batches)
        \/ (ret'.op \in JobLookups /\ ret'.id \notin DOMAIN jobs))
       => /\ jobs' = jobs
          /\ batches' = batches
          /\ events' = << >>
          /\ ret'.op \in {"addVideoToBatch", "cancelBatch"} => ret'.val = FALSE
          /\ ret'.op = "getNextQueuedVideo" => ret'.val = Nothing]_vars

\* A batch that was running with a video in flight has been purged by the
\* sweep, and a call on its id has just returned false, with nothing published.
PurgedIdWitness ==
  \E b \in DOMAIN born :
    /\ b \in BatchIds /\ b \notin DOMAIN batches
    /\ inflight[b] # {}
    /\ ret.op = "addVideoToBatch" /\ ret.id = b /\ ret.val = FALSE
    /\ events = << >>

\* C15 (SpecFlight).  cancelBatch on an existing batch that is not running
\* (pending, completed or cancelled) returns false, changes nothing of the
\* batch and publishes no event.  On a running batch it returns true, sets the
\* status to cancelled and stamps completedAt, leaves every other field (the
\* queue, the history, the completed and failed lists, the results,
\* currentIndex, currentJobId, uploadsComplete) as it was, and publishes one
\* batch:cancelled event with the completed and failed lists.
CancelChangesOnlyStatus ==
  [][\A b \in DOMAIN batches :
       (ret'.op = "cancelBatch" /\ ret'.id = b)
         => IF batches[b].status = "running"
              THEN /\ ret'.val = TRUE
                   /\ batches' = [batches EXCEPT ![b].status = "cancelled",
                                                 ![b].completedAt = Some(now)]
                   /\ Len(events') = 1
                   /\ events'[1].topic = "batch:cancelled"
                   /\ events'[1].payload.completed = batches[b].completed
                   /\ events'[1].payload.failed = batches[b].failed
              ELSE /\ ret'.val = FALSE
                   /\ batches' = batches
                   /\ events' = << >>]_vars

\* cancelBatch has just been accepted on a batch with a video in flight, an
\* item still queued, one video completed and one failed.
CancelFrameWitness ==
  \E b \in DOMAIN batches :
    /\ ret.op = "cancelBatch" /\ ret.id = b /\ ret.val = TRUE
    /\ batches[b].status = "cancelled"
    /\ batches[b].currentJobId # Null
    /\ Len(batches[b].videoQueue) > 0
    /\ Len(batches[b].completed) = 1
    /\ Len(batches[b].failed) = 1

\* C16 (SpecFlight).  The claim as stated: completeBatch on a batch that is
\* pending, completed or cancelled leaves the status as it was and publishes
\* no batch:complete; on a running batch it sets the status to completed,
\* clears currentJobId and publishes batch:complete once.
CompleteOnlyFromRunning ==
  [][\A b \in DOMAIN batches :
       (ret'.op = "completeBatch" /\ ret'.id = b)
         => IF batches[b].status = "running"
              THEN /\ batches'[b].status = "completed"
                   /\ batches'[b].currentJobId = Null
                   /\ Len(events') = 1
                   /\ events'[1].topic = "batch:complete"
              ELSE /\ batches'[b].status = batches[b].status
                   /\ events' = << >>]_vars

\* C17 (SpecFlight).  On a cancelled batch, completeBatchVideo still appends
\* the path to the completed list and stores its result, failBatchVideo still
\* appends the path and its error to the failed list; each clears
\* currentJobId, publishes its event (batch:video_complete, batch:video_error)
\* for that path, and changes nothing else: the status stays cancelled.
OutcomeRecordedAfterCancel ==
  [][\A b \in DOMAIN batches :
       (batches[b].status = "cancelled" /\ ret'.id = b)
         => /\ ret'.op = "completeBatchVideo"
                 => \E p \in Paths, r \in Results :
                      /\ batches' = [batches EXCEPT
                                       ![b].completed = Append(@, p),
                                       ![b].results = Put(@, p, r),
                                       ![b].currentJobId = Null]
                      /\ Len(events') = 1
                      /\ events'[1].topic = "batch:video_complete"
                      /\ events'[1].payload.path = p
                      /\ events'[1].payload.result = r
            /\ ret'.op = "failBatchVideo"
                 => \E p \in Paths, e \in Errors :
                      /\ batches' = [batches EXCEPT
                                       ![b].failed = Append(@, [path |-> p, error |-> e]),
                                       ![b].currentJobId = Null]
                      /\ Len(events') = 1
                      /\ events'[1].topic = "batch:video_error"
                      /\ events'[1].payload.path = p
                      /\ events'[1].payload.error = e]_vars

\* A batch was cancelled while its current video was in flight, and
\* completeBatchVideo has just recorded that video: it is the only outcome of
\* the batch, and the batch is still cancelled.
LateOutcomeWitness ==
  \E b \in DOMAIN batches :
    /\ ret.op = "completeBatchVideo" /\ ret.id = b
    /\ batches[b].status = "cancelled"
    /\ granted[b]
    /\ batches[b].currentIndex >= 0
    /\ batches[b].completed = << batches[b].videos[batches[b].currentIndex + 1] >>
    /\ batches[b].failed = << >>
    /\ batches[b].currentJobId = Null
    /\ Len(events) = 1

\* C18 (SpecDrain).  failBatchVideo leaves the status, the queue, the history
\* list and uploadsComplete of the batch as they were; whatever failures have
\* been recorded, getNextQueuedVideo on a non-empty queue still removes and
\* returns its head; and the status of a batch becomes completed only in a
\* completeBatch call and cancelled only in a cancelBatch call.
FailureKeepsStatusAndQueue ==
  [][\A b \in DOMAIN batches :
       /\ (ret'.op = "failBatchVideo" /\ ret'.id = b)
            => /\ batches'[b].status = batches[b].status
               /\ batches'[b].videoQueue = batches[b].videoQueue
               /\ batches'[b].videos = batches[b].videos
               /\ batches'[b].uploadsComplete = batches[b].uploadsComplete
               /\ \E p \in Paths, e \in Errors :
                    batches'[b].failed = Append(batches[b].failed, [path |-> p, error |-> e])
       /\ (ret'.op = "getNextQueuedVideo" /\ ret'.id = b /\ batches[b].videoQueue # << >>)
            => /\ ret'.val = Some(Head(batches[b].videoQueue))
               /\ batches'[b].videoQueue = Tail(batches[b].videoQueue)
       /\ (batches'[b].status = "completed" /\ batches[b].status # "completed")
            => ret'.op = "completeBatch"
       /\ (batches'[b].status = "cancelled" /\ batches[b].status # "cancelled")
            => ret'.op = "cancelBatch"]_vars

\* Two different videos of a batch were handed out and both have failed, the
\* second just now; the batch is still running and its queue is drained.
FailuresThenDequeueWitness ==
  \E b \in DOMAIN batches :
    /\ ret.op = "failBatchVideo" /\ ret.id = b
    /\ batches[b].status = "running"
    /\ Len(batches[b].failed) = 2
    /\ Len(dequeued[b]) = 2
    /\ dequeued[b][1] # dequeued[b][2]
    /\ PathsOf(dequeued[b]) = PathsOf(batches[b].failed)
    /\ batches[b].videoQueue = << >>

\* C19 (SpecJobs).  The claim as stated: once the status of a Job is completed
\* or failed, no call on its id (other than createJob, which stores a new Job)
\* makes it pending or running while the Job is in the registry.
JobTerminal == {"completed", "failed"}

JobTerminalIsFinal ==
  [][\A id \in DOMAIN jobs :
       (jobs[id].status \in JobTerminal /\ id \in DOMAIN jobs' /\ ret'.op # "createJob")
         => jobs'[id].status \in JobTerminal]_vars

\* C20 (SpecQueue).  The claim as stated, for the call that follows
\* markUploadsComplete on a batch: it does not make the queue of that batch
\* longer.
QueueClosedAfterUploadsComplete ==
  [][\A b \in DOMAIN batches :
       (ret.op = "markUploadsComplete" /\ ret.id = b /\ b \in DOMAIN batches')
         => Len(batches'[b].videoQueue) <= Len(batches[b].videoQueue)]_vars

\* ------------------------------------------------------------ driving loop

\* The loop that drains one batch, as sections 2 and 5 of the design describe
\* it: when no job is running it checks isBatchCancelled, dequeues with
\* getNextQueuedVideo, starts the video and records its outcome when the
\* analysis call returns; it retries while shouldBatchWait is true and
\* finalizes with completeBatch when isBatchDone is true.  Where the loop
\* stands is read off the batch: a current job id is set while the analysis
\* call is out, and an item handed out with no outcome yet is held by the loop.
Outcomes(b) == Len(batches[b].completed) + Len(batches[b].failed)

JobRunning(b) == batches[b].currentJobId # Null

Holding(b) == ~JobRunning(b) /\ Len(dequeued[b]) > Outcomes(b)

BetweenItems(b) == ~JobRunning(b) /\ Len(dequeued[b]) = Outcomes(b)

\* The loop has left: between items it found the batch cancelled, or it has
\* finalized it.
Stopped(b) ==
  /\ b \in DOMAIN batches
  /\ BetweenItems(b)
  /\ batches[b].status \in {"completed", "cancelled"}

Looping(b) == b \in DOMAIN batches /\ BetweenItems(b) /\ ~Stopped(b)

DriverDequeue(b) == Looping(b) /\ ~NothingQueued(b) /\ getNextQueuedVideo(b)

DriverWait(b) == Looping(b) /\ NothingQueued(b) /\ ShouldWait(b) /\ shouldBatchWait(b)

DriverFinalize(b) == Looping(b) /\ NothingQueued(b) /\ IsDone(b) /\ completeBatch(b)

DriverStart(b) ==
  /\ b \in DOMAIN batches
  /\ Holding(b)
  /\ \E j \in SweepJobIds : startBatchVideo(b, dequeued[b][Len(dequeued[b])].path, j)

\* The analysis call returns, with a result or with an error.
DriverRecord(b) ==
  /\ b \in DOMAIN batches
  /\ JobRunning(b)
  /\ LET path == dequeued[b][Len(dequeued[b])].path
     IN \/ \E r \in Results : completeBatchVideo(b, path, r)
        \/ \E e \in Errors : failBatchVideo(b, path, e)

\* The loop of one batch, with a producer that adds videos and marks the
\* uploads complete, and a client that may cancel at any moment.
NextDriver ==
  \/ \E b \in BatchIds, videos \in SeqsUpTo(Paths, MaxVideos), m \in Models, f \in Fpss :
       createBatch(b, videos, m, f)
  \/ \E b \in BatchIds, m \in Models, f \in Fpss : createEmptyBatch(b, m, f)
  \/ \E b \in BatchIds, p \in Paths, n \in Names : addVideoToBatch(b, p, n)
  \/ \E b \in BatchIds : markUploadsComplete(b)
  \/ \E b \in BatchIds : cancelBatch(b)
  \/ \E b \in BatchIds : DriverDequeue(b)
  \/ \E b \in BatchIds : DriverWait(b)
  \/ \E b \in BatchIds : DriverFinalize(b)
  \/ \E b \in BatchIds : DriverStart(b)
  \/ \E b \in BatchIds : DriverRecord(b)

\* The producer eventually calls markUploadsComplete, every analysis call
\* eventually returns, and the loop is not starved of its own steps.
SpecDriver ==
  /\ Init
  /\ [][NextDriver]_vars
  /\ \A b \in BatchIds :
       /\ WF_vars(markUploadsComplete(b))
       /\ WF_vars(DriverDequeue(b))
       /\ WF_vars(DriverStart(b))
       /\ WF_vars(DriverRecord(b))
       /\ WF_vars(DriverFinalize(b))

PredicatesArePure ==
  [][/\ ret'.op \in {"shouldBatchWait", "isBatchDone", "isBatchCancelled"}
          => /\ jobs' = jobs
             /\ batches' = batches
             /\ events' = << >>
     /\ \A b \in DOMAIN batches :
          /\ (ret'.op = "shouldBatchWait" /\ ret'.id = b)
               => ret'.val = (~batches[b].uploadsComplete /\ batches[b].videoQueue = << >>)
          /\ (ret'.op = "isBatchCancelled" /\ ret'.id = b)
               => ret'.val = (batches[b].status = "cancelled")]_vars

\* shouldBatchWait has just returned false on a running batch whose uploads
\* are not complete, because an item is queued; an earlier item was handed out.
NoWaitWhileQueuedWitness ==
  \E b \in DOMAIN batches :
    /\ ret.op = "shouldBatchWait" /\ ret.id = b /\ ret.val = FALSE
    /\ ~batches[b].uploadsComplete
    /\ Len(batches[b].videoQueue) > 0
    /\ Len(dequeued[b]) > 0
    /\ batches[b].status = "running"

\* ------------------------------------------------- repeated terminal calls

\* One job, completed and failed any number of times, with either of two
\* results and either of two errors, as the clock advances.
TwoResults == Results \cup {"r2"}
TwoErrors == Errors \cup {"e2"}

NextTerminal ==
  \/ Tick
  \/ \E id \in SweepJobIds : createJob(id)
  \/ \E id \in SweepJobIds, p \in Progresses : updateProgress(id, p)
  \/ \E id \in SweepJobIds, r \in TwoResults : completeJob(id, r)
  \/ \E id \in SweepJobIds, e \in TwoErrors : failJob(id, e)

SpecTerminal == Init /\ [][NextTerminal]_vars

\* C23 (SpecTerminal).  A completeJob call on an existing job, whatever its
\* status, sets the status to completed, stores the result it was given,
\* stamps completedAt and publishes one complete event with that result; a
\* failJob call sets the status to failed, stores the error it was given,
\* stamps completedAt and publishes one error event with that error; each
\* changes nothing else, and no other call on the job (createJob apart)
\* changes the stored result or error.  So after any sequence of the two the
\* status is that of the last call, the result that of the last completeJob
\* and the error that of the last failJob.
LastTerminalWriteWins ==
  [][\A id \in DOMAIN jobs :
       /\ (ret'.op = "completeJob" /\ ret'.id = id)
            => \E r \in TwoResults :
                 /\ jobs' = [jobs EXCEPT ![id].status = "completed", ![id].result = r,
                                         ![id].completedAt = Some(now)]
                 /\ events' = << Event("complete", id, [result |-> r]) >>
       /\ (ret'.op = "failJob" /\ ret'.id = id)
            => \E e \in TwoErrors :
                 /\ jobs' = [jobs EXCEPT ![id].status = "failed", ![id].error = e,
                                         ![id].completedAt = Some(now)]
                 /\ events' = << Event("error", id, [error |-> e]) >>
       /\ (id \in DOMAIN jobs' /\ ret'.op \notin {"completeJob", "createJob"})
            => jobs'[id].result = jobs[id].result
       /\ (id \in DOMAIN jobs' /\ ret'.op \notin {"failJob", "createJob"})
            => jobs'[id].error = jobs[id].error]_vars

\* A job that had been completed with a result has just been failed, two
\* clock steps after it was created: it is failed, its error and completedAt
\* are those of this call, and the result is still there.
RepeatedTerminalWitness ==
  \E id \in DOMAIN jobs :
    /\ ret.op = "failJob" /\ ret.id = id
    /\ jobs[id].status = "failed"
    /\ jobs[id].error = "e2"
    /\ jobs[id].result = "r1"
    /\ jobs[id].completedAt = Some(2 * ClockStepMs)
    /\ events = << Event("error", id, [error |-> "e2"]) >>

\* ------------------------------------------------------------ event counts

\* The methods that publish a count: the queue, the start of a video and the
\* three ways an outcome is recorded.
NextCounts ==
  \/ \E b \in BatchIds, videos \in SeqsUpTo(Paths, MaxVideos), m \in Models, f \in Fpss :
       createBatch(b, videos, m, f)
  \/ \E b \in BatchIds, m \in Models, f \in Fpss : createEmptyBatch(b, m, f)
  \/ \E b \in BatchIds, p \in Paths, n \in Names : addVideoToBatch(b, p, n)
  \/ \E b \in BatchIds : getNextQueuedVideo(b)
  \/ \E b \in BatchIds, p \in Paths, j \in SweepJobIds : startBatchVideo(b, p, j)
  \/ \E b \in BatchIds, p \in Paths, r \in Results : completeBatchVideo(b, p, r)
  \/ \E b \in BatchIds, p \in Paths, e \in Errors : failBatchVideo(b, p, e)
  \/ \E b \in BatchIds, p \in Paths, r \in Reasons : skipBatchVideo(b, p, r)

SpecCounts == Init /\ [][NextCounts]_vars

\* C24 (SpecCounts).  The counts in an event are those of the batch right
\* after the call that published it: batch:video_added carries the length of
\* the queue and of the history list, batch:video_complete and
\* batch:video_skipped the length of the completed list, batch:video_error the
\* length of the failed list, each with the length of the history list as
\* total; and batch:video_start, for a path that getNextQueuedVideo has handed
\* out from this batch, carries an index i with 0 <= i < total at which the
\* history list holds that path.
PayloadCountsMatchState ==
  [][\A b \in DOMAIN batches :
       \A i \in 1..Len(events') :
         LET e == events'[i]
             after == batches'[b]
         IN e.id = b =>
              /\ e.topic = "batch:video_added"
                   => /\ e.payload.queueLength = Len(after.videoQueue)
                      /\ e.payload.total = Len(after.videos)
                      /\ after.videos[Len(after.videos)] = e.payload.path
              /\ e.topic \in {"batch:video_complete", "batch:video_skipped"}
                   => /\ e.payload.completedCount = Len(after.completed)
                      /\ e.payload.total = Len(after.videos)
                      /\ after.completed[Len(after.completed)] = e.payload.path
              /\ e.topic = "batch:video_error"
                   => /\ e.payload.failedCount = Len(after.failed)
                      /\ e.payload.total = Len(after.videos)
                      /\ after.failed[Len(after.failed)].path = e.payload.path
              /\ e.topic = "batch:video_start"
                   => /\ e.payload.total = Len(after.videos)
                      /\ e.payload.index = after.currentIndex
                      /\ e.payload.path \in Range(PathsOf(dequeued[b]))
                           => /\ 0 <= e.payload.index
                              /\ e.payload.index < e.payload.total
                              /\ after.videos[e.payload.index + 1] = e.payload.path]_vars

\* The second of two different videos, handed out second, has just been
\* started: the event carries index 1 of 2.
StartIndexWitness ==
  \E b \in DOMAIN batches :
    /\ ret.op = "startBatchVideo" /\ ret.id = b
    /\ Len(events) = 1
    /\ events[1].payload.index = 1
    /\ events[1].payload.total = 2
    /\ Len(dequeued[b]) = 2
    /\ dequeued[b][2].path = events[1].payload.path
    /\ dequeued[b][1].path # dequeued[b][2].path

\* C25 (SpecQueue).  For every existing batch, in every reachable state,
\* exactly one of these holds: shouldBatchWait is true, isBatchDone is true,
\* the queue is non-empty.  So the two predicates are never both true, and
\* when both are false the queue is non-empty; and a getNextQueuedVideo call
\* returns an item exactly when both were false.
Moves(b) ==
  {m \in {"wait", "finalize", "dequeue"} :
     \/ m = "wait" /\ ShouldWait(b)
     \/ m = "finalize" /\ IsDone(b)
     \/ m = "dequeue" /\ batches[b].videoQueue # << >>}

ExactlyOneMove ==
  /\ [](\A b \in DOMAIN batches :
          /\ Cardinality(Moves(b)) = 1
          /\ ~(ShouldWait(b) /\ IsDone(b))
          /\ (~ShouldWait(b) /\ ~IsDone(b)) => batches[b].videoQueue # << >>)
  /\ [][\A b \in DOMAIN batches :
          (ret'.op = "getNextQueuedVideo" /\ ret'.id = b)
            => ((ret'.val # Nothing) <=> (~ShouldWait(b) /\ ~IsDone(b)))]_vars

\* On a running batch whose uploads are not complete, getNextQueuedVideo has
\* just returned an item and another is still queued: neither wait nor done.
DequeueMoveWitness ==
  \E b \in DOMAIN batches :
    /\ ret.op = "getNextQueuedVideo" /\ ret.id = b /\ ret.val # Nothing
    /\ ~ShouldWait(b) /\ ~IsDone(b)
    /\ ~batches[b].uploadsComplete
    /\ batches[b].status = "running"

\* ------------------------------------------------------- a purged batch

\* What the loop of a batch calls (the three predicates, getNextQueuedVideo,
\* startBatchVideo, completeBatchVideo, completeBatch) and what its producer
\* calls, on one path, while the clock advances and the sweep runs.
NextPurge ==
  \/ Tick
  \/ cleanup
  \/ \E b \in BatchIds, videos \in SeqsUpTo(SweepPaths, 1), m \in Models, f \in Fpss :
       createBatch(b, videos, m, f)
  \/ \E b \in BatchIds, m \in Models, f \in Fpss : createEmptyBatch(b, m, f)
  \/ \E b \in BatchIds, p \in SweepPaths, n \in Names : addVideoToBatch(b, p, n)
  \/ \E b \in BatchIds : markUploadsComplete(b)
  \/ \E b \in BatchIds : getNextQueuedVideo(b)
  \/ \E b \in BatchIds : shouldBatchWait(b)
  \/ \E b \in BatchIds : isBatchDone(b)
  \/ \E b \in BatchIds : isBatchCancelled(b)
  \/ \E b \in BatchIds, p \in SweepPaths, j \in SweepJobIds : startBatchVideo(b, p, j)
  \/ \E b \in BatchIds, p \in SweepPaths, r \in Results : completeBatchVideo(b, p, r)
  \/ \E b \in BatchIds : completeBatch(b)

SpecPurge == Init /\ [][NextPurge]_vars

\* C26 (SpecPurge).  For a batch id that is not in the map, never created or
\* purged by cleanup (whatever the batch was doing: uploads not complete,
\* items queued, a video in flight), isBatchDone returns true, shouldBatchWait
\* returns false, isBatchCancelled returns false and getNextQueuedVideo
\* returns null; and completeBatch changes no batch and publishes no event.
\* A loop that polls these finds nothing to wait for and nothing to dequeue.
PurgedBatchLooksDone ==
  [][\A b \in BatchIds \ DOMAIN batches :
       ret'.id = b
         => /\ ret'.op = "isBatchDone" => ret'.val = TRUE
            /\ ret'.op = "shouldBatchWait" => ret'.val = FALSE
            /\ ret'.op = "isBatchCancelled" => ret'.val = FALSE
            /\ ret'.op = "getNextQueuedVideo" => ret'.val = Nothing
            /\ ret'.op \in {"isBatchDone", "shouldBatchWait", "isBatchCancelled",
                            "getNextQueuedVideo", "completeBatch"}
                 => /\ batches' = batches
                    /\ events' = << >>]_vars

\* A batch was purged with a video in flight and an item still to hand out,
\* and isBatchDone on its id has just returned true.
PurgedDoneWitness ==
  \E b \in DOMAIN born :
    /\ b \in BatchIds /\ b \notin DOMAIN batches
    /\ inflight[b] # {}
    /\ Len(accepted[b]) > Len(dequeued[b])
    /\ ret.op = "isBatchDone" /\ ret.id = b /\ ret.val = TRUE

\* C27 (Spec).  The claim as stated: for every batch, in every reachable
\* state, the completed paths and the failed entries together are no more than
\* the history list holds, and the remaining count of a batch:cancelled event
\* is not negative.
OutcomesWithinHistory ==
  \A b \in DOMAIN batches :
    /\ Len(batches[b].completed) + Len(batches[b].failed) <= Len(batches[b].videos)
    /\ (ret.op = "cancelBatch" /\ ret.id = b /\ ret.val = TRUE)
         => events[1].payload.remaining >= 0
====
